---- MODULE Spec2Model ----
(***************************************************************************)
(* MultiGateway (custom_components/xiaomi_gateway3/core/gateway.py): the   *)
(* lifecycle task run_forever, start()/stop(), enable_telnet and           *)
(* prepare_gateway, on one asyncio event loop.  One action is one step of  *)
(* a coroutine: from the resumption of an await to the next await.         *)
(***************************************************************************)
EXTENDS Integers, Sequences, FiniteSets, TLC

\* ------------------------------------------------------------------ bounds
MaxTasks == 2      \* lifecycle tasks start() may create in one behaviour
MaxStops == 2      \* stop() calls made in one behaviour
TickLen == 10      \* time-units one Tick of the clock advances
SleepCap == 70     \* a sleeping task is observed for at most this long
MaxBoots == 2      \* successful bootstraps in one behaviour

\* --------------------------------------------------------- program constants
ACCESS_BACKOFF == 30     \* asyncio.sleep(30), gateway.py:51
PREPARE_BACKOFF == 60    \* asyncio.sleep(60), gateway.py:55

TaskIds == 1..MaxTasks
StopIds == 1..MaxStops
NoTask == 0              \* main_task = None

\* Strings the firmware gate compares are sequences of character codes.
Dot == 46
Und == 95
D(n) == 48 + n

\* "1.4.7_0160"
MIN_VERSION == <<D(1), Dot, D(4), Dot, D(7), Und, D(0), D(1), D(6), D(0)>>

\* firmware versions get_version() may report
Versions ==
  { <<D(1), Dot, D(4), Dot, D(6), Und, D(0), D(0), D(1), D(2)>>,   \* 1.4.6_0012
    MIN_VERSION,                                                    \* 1.4.7_0160
    <<D(1), Dot, D(4), Dot, D(1), D(0), Und, D(0), D(0), D(1)>>,   \* 1.4.10_001
    <<D(1), Dot, D(5), Dot, D(0), Und, D(0), D(1), D(0), D(2)>> }  \* 1.5.0_0102

Models == {"lumi.gateway.mgl03", "lumi.gateway.mgl001", "lumi.gateway.aqcn02"}

EVENT_MQTT_PUBLISH == "mqtt_publish"
EVENT_TIMER == "timer"
EventKinds == {EVENT_MQTT_PUBLISH, EVENT_TIMER}

\* values of options.get("token")
TokenValues == {"absent", "empty", "set"}

\* Python's str < str: lexicographic on the character codes, a proper prefix
\* being the smaller.
RECURSIVE StrLess(_, _)
StrLess(a, b) ==
  IF b = <<>> THEN FALSE
  ELSE IF a = <<>> THEN TRUE
  ELSE IF Head(a) < Head(b) THEN TRUE
  ELSE IF Head(a) > Head(b) THEN FALSE
  ELSE StrLess(Tail(a), Tail(b))

VARIABLES
  device,      \* the physical gateway: its model, and whether its shell has
               \* the read_db_bluetooth attribute
  main_task,   \* MultiGateway.main_task: NoTask or the id of a task
  tasks,       \* per created task: its state and the locals of its coroutine
  nTasks,      \* how many tasks asyncio.create_task has made
  stops,       \* per stop() call: where it stands, and (history) the task
               \* that was main_task when it was called
  listeners,   \* the event listener registry: kind -> sequence of handlers
  lastReg,     \* history: what the most recent successful bootstrap registered
  stopped,     \* history: tasks a returned stop() was stopping
  lastStart,   \* history: what the last start() found, until the next stop()
  fired,       \* history: the event dispatch made last in the current phase
  io           \* the send() or telnet_command() call a caller has in flight:
               \* its arguments, where it stands, what it did and returned

vars == <<device, io, main_task, tasks, nTasks, stops, listeners, lastReg, stopped, lastStart, fired>>

\* The locals of a lifecycle task that has not been created.
NoTaskRec ==
  [ st |-> "none", pc |-> "none", must_cancel |-> FALSE,
    timer |-> 0, slept |-> 0, prev |-> "first",
    probe |-> "none", enable |-> "none", prep |-> "none",
    sh |-> FALSE, ble |-> FALSE, model |-> "", version |-> <<>>,
    fetched |-> FALSE, reads |-> <<>>, exitWith |-> "none",
    pre_listeners |-> [k \in EventKinds |-> <<>>] ]

NoFired == [task |-> NoTask, kind |-> "", calls |-> <<>>]

\* no send() or telnet_command() call has been made
NoIo == [op |-> "none"]

\* Task.done() is false: the task can still be stepped and cancelled.
Live(t) == tasks[t].st = "pending"
\* Task.cancelled()
Cancelled(t) == tasks[t].st = "cancelled"
\* A step of the coroutine runs only when no cancellation is pending: a task
\* whose cancel() was called gets CancelledError at its next step instead.
Runnable(t) == Live(t) /\ ~tasks[t].must_cancel

\* the gateway object after construction: start() has not been called
Constructed ==
  /\ main_task = NoTask
  /\ tasks = [t \in TaskIds |-> NoTaskRec]
  /\ nTasks = 0
  /\ stops = [s \in StopIds |-> [pc |-> "idle", target |-> NoTask]]
  /\ listeners = [k \in EventKinds |-> <<>>]
  /\ lastReg = [k \in EventKinds |-> <<>>]
  /\ stopped = {}
  /\ lastStart = "none"
  /\ fired = NoFired

Init ==
  /\ device \in [model : Models, ble : BOOLEAN]
  /\ Constructed
  /\ io = NoIo

\* ------------------------------------------------------------ start / stop

\* asyncio.create_task(self.run_forever()): the task exists, its first step
\* is scheduled and has not run.
CreateTask(t) ==
  [NoTaskRec EXCEPT !.st = "pending", !.pc = "created"]

\* start() when main_task is falsy
StartLaunch ==
  /\ main_task = NoTask
  /\ nTasks < MaxTasks
  /\ nTasks' = nTasks + 1
  /\ tasks' = [tasks EXCEPT ![nTasks + 1] = CreateTask(nTasks + 1)]
  /\ main_task' = nTasks + 1
  /\ UNCHANGED <<device, io, stops, listeners, lastReg, stopped, fired>>

\* start() without its guard: a task is created although main_task is set
StartNoopLaunches ==
  /\ main_task # NoTask
  /\ nTasks < MaxTasks
  /\ nTasks' = nTasks + 1
  /\ tasks' = [tasks EXCEPT ![nTasks + 1] = CreateTask(nTasks + 1)]
  /\ main_task' = nTasks + 1
  /\ UNCHANGED <<device, io, stops, listeners, lastReg, stopped, fired>>

\* start() when main_task is truthy: a Task object is truthy whatever its state
StartNoop ==
  /\ main_task # NoTask
  /\ UNCHANGED <<device, io, main_task, tasks, nTasks, stops, listeners, lastReg, stopped, fired>>

\* def start(self)
Start ==
  /\ lastStart' = IF \E t \in TaskIds : Live(t) THEN "running" ELSE "not_running"
  /\ (StartLaunch \/ StartNoop)

\* Task.cancel(): False and no effect on a done task; otherwise the task gets
\* CancelledError at its next step.
Cancel(ts, t) ==
  IF ts[t].st = "pending" THEN [ts EXCEPT ![t].must_cancel = TRUE] ELSE ts

\* stop() with `if` for `while`: one cancel() request, no wait for the task
StopLoopNoWait(s) ==
  /\ tasks' = Cancel(tasks, main_task)
  /\ main_task' = NoTask
  /\ stops' = [stops EXCEPT ![s].pc = "returned",
                            ![s].target = IF @ = NoTask THEN main_task ELSE @]
  /\ stopped' = stopped \cup {main_task, stops'[s].target}

\* One pass of stop()'s loop from its head, main_task being a task:
\* either the task reports cancelled and stop() clears main_task and returns,
\* or stop() cancels it and suspends in asyncio.sleep(0.1).
\* On a task that ended with an exception cancelled() stays false and cancel()
\* does nothing: the pass repeats with nothing changed.
StopLoop(s) ==
  IF Cancelled(main_task)
  THEN /\ main_task' = NoTask
       /\ stops' = [stops EXCEPT ![s].pc = "returned",
                                 ![s].target = IF @ = NoTask THEN main_task ELSE @]
       /\ stopped' = stopped \cup {main_task, stops'[s].target}
       /\ UNCHANGED tasks
  ELSE /\ tasks' = Cancel(tasks, main_task)
       /\ stops' = [stops EXCEPT ![s].pc = "polling",
                                 ![s].target = IF @ = NoTask THEN main_task ELSE @]
       /\ UNCHANGED <<main_task, stopped>>

\* stop() without its `if not self.main_task: return`: the loop condition
\* self.main_task.cancelled() is evaluated on None
StopCallNoGuard(s) ==
  /\ stops[s].pc = "idle"
  /\ \A r \in StopIds : r < s => stops[r].pc # "idle"
  /\ lastStart' = "none"
  /\ IF main_task = NoTask
     THEN /\ stops' = [stops EXCEPT ![s].pc = "raised"]
          /\ UNCHANGED <<main_task, tasks, stopped>>
     ELSE StopLoop(s)
  /\ UNCHANGED <<device, io, nTasks, listeners, lastReg, fired>>

\* async def stop(self): the call, up to its first suspension or its return
StopCall(s) ==
  /\ stops[s].pc = "idle"
  /\ \A r \in StopIds : r < s => stops[r].pc # "idle"
  /\ lastStart' = "none"
  /\ IF main_task = NoTask
     THEN /\ stops' = [stops EXCEPT ![s].pc = "returned"]
          /\ UNCHANGED <<main_task, tasks, stopped>>
     ELSE StopLoop(s)
  /\ UNCHANGED <<device, io, nTasks, listeners, lastReg, fired>>

\* stop() resumes from asyncio.sleep(0.1) and evaluates the loop condition
\* self.main_task.cancelled(): on None that is an AttributeError.
StopWake(s) ==
  /\ stops[s].pc = "polling"
  /\ IF main_task = NoTask
     THEN /\ stops' = [stops EXCEPT ![s].pc = "raised"]
          /\ UNCHANGED <<main_task, tasks, stopped>>
     ELSE StopLoop(s)
  /\ UNCHANGED <<device, io, nTasks, listeners, lastReg, lastStart, fired>>

\* --------------------------------------------------------- prepare_gateway

\* the BLE and mesh handlers registered without the hasattr test of line 110
MqttHandlersAlwaysBle(ble, model) ==
  <<"lumi_on_mqtt_publish", "miot_on_mqtt_publish",
    "openmiio_on_mqtt_publish", "silabs_on_mqtt_publish",
    "ble_on_mqtt_publish", "mesh_on_mqtt_publish">>
  \o (IF model = "lumi.gateway.mgl001" THEN <<"matter_on_mqtt_publish">> ELSE <<>>)

\* handlers in the order prepare_gateway registers them for EVENT_MQTT_PUBLISH
MqttHandlers(ble, model) ==
  <<"lumi_on_mqtt_publish", "miot_on_mqtt_publish",
    "openmiio_on_mqtt_publish", "silabs_on_mqtt_publish">>
  \o (IF ble THEN <<"ble_on_mqtt_publish", "mesh_on_mqtt_publish">> ELSE <<>>)
  \o (IF model = "lumi.gateway.mgl001" THEN <<"matter_on_mqtt_publish">> ELSE <<>>)

\* handlers prepare_gateway registers for EVENT_TIMER
TimerHandlers == <<"openmiio_on_timer", "silabs_on_timer">>

\* add_event_listner(event, handler): appends the handler to the event's list
add_event_listner(reg, event, handler) ==
  [reg EXCEPT ![event] = Append(@, handler)]

RECURSIVE AddAll(_, _, _)
AddAll(reg, event, hs) ==
  IF hs = <<>> THEN reg
  ELSE AddAll(add_event_listner(reg, event, Head(hs)), event, Tail(hs))

\* lines 105-118: the registrations of a successful bootstrap
RegisterAll(reg, ble, model) ==
  AddAll(AddAll(reg, EVENT_MQTT_PUBLISH, MqttHandlers(ble, model)),
         EVENT_TIMER, TimerHandlers)

\* the inventory reads of lines 92-103, in order
ReadPlan(ble, model) ==
  <<"base_read_device", "lumi_read_devices", "silabs_read_device",
    "openmiio_prepare_gateway">>
  \o (IF ble THEN <<"ble_read_devices", "mesh_read_devices">> ELSE <<>>)
  \o (IF model = "lumi.gateway.mgl001" THEN <<"matter_read_devices">> ELSE <<>>)

\* the firmware gate of lines 84-87
Unsupported(model, version) ==
  model = "lumi.gateway.mgl03" /\ StrLess(version, MIN_VERSION)

\* ------------------------------------------------------------- run_forever

\* the top of the while True loop: run_forever calls check_port and suspends
LoopTop(r, why) ==
  [r EXCEPT !.pc = "check_port", !.prev = why, !.timer = 0,
            !.slept = IF why \in {"first", "mqtt_end"} THEN 0 ELSE @,
            !.probe = "none", !.enable = "none", !.prep = "none",
            !.exitWith = "none"]

\* await asyncio.sleep(d); continue
Backoff(r, d, which) ==
  [r EXCEPT !.pc = which, !.timer = d, !.slept = 0]

\* the access backoff mistyped as asyncio.sleep(3)
AccessFailedShort(r, how) ==
  Backoff([r EXCEPT !.enable = how], 3, "sleep30")

\* enable-access failed (line 50): sleep 30 and continue
AccessFailed(r, how) ==
  Backoff([r EXCEPT !.enable = how], ACCESS_BACKOFF, "sleep30")

\* the bootstrap backoff using the access interval
PrepareFailedShort(r, how) ==
  Backoff([r EXCEPT !.prep = how, !.sh = FALSE, !.exitWith = "none",
                    !.ble = FALSE, !.model = "", !.version = <<>>, !.fetched = FALSE,
                    !.reads = <<>>],
          ACCESS_BACKOFF, "sleep60")

\* prepare_gateway returned False (line 54): sleep 60 and continue
PrepareFailed(r, how) ==
  Backoff([r EXCEPT !.prep = how, !.sh = FALSE, !.exitWith = "none",
                    !.ble = FALSE, !.model = "", !.version = <<>>, !.fetched = FALSE,
                    !.reads = <<>>],
          PREPARE_BACKOFF, "sleep60")

\* run_forever calls prepare_gateway, which suspends opening the Session
EnterPrepare(r, reg) ==
  [r EXCEPT !.pc = "pg_session", !.prep = "running", !.sh = FALSE,
            !.ble = FALSE, !.model = "", !.version = <<>>, !.fetched = FALSE, !.reads = <<>>,
            !.exitWith = "none", !.pre_listeners = reg]

\* an exception leaves run_forever: the task is done, not cancelled
Fail(r) ==
  [NoTaskRec EXCEPT !.st = "failed", !.pc = "done"]

\* the successful bootstraps so far are bounded (each registers the two timer
\* handlers)
CanBoot == Len(listeners[EVENT_TIMER]) < 2 * MaxBoots

\* one step of task t, leaving its locals as r
Step(t, r, op) ==
  /\ tasks' = [tasks EXCEPT ![t] = r]
  /\ fired' = IF fired.task = t /\ r.pc # "mqtt" THEN NoFired ELSE fired
  /\ UNCHANGED <<device, io, main_task, nTasks, stops, stopped, lastStart>>

\* the first step of the task: run_forever starts and suspends in check_port
TaskBegin(t) ==
  /\ Runnable(t) /\ tasks[t].pc = "created"
  /\ Step(t, LoopTop(tasks[t], "first"), "begin")
  /\ UNCHANGED <<listeners, lastReg>>

\* the bootstrap entered although enable_telnet returned False for want of a
\* token
EnableTelnetCallThenPrepare(r, token) ==
  IF token = "set" THEN [r EXCEPT !.pc = "enable_telnet"]
  ELSE EnterPrepare([r EXCEPT !.enable = "no_token"], listeners)

\* the token is falsy: enable_telnet returns False without suspending
EnableTelnetCall(r, token) ==
  IF token = "set" THEN [r EXCEPT !.pc = "enable_telnet"]
  ELSE AccessFailed(r, "no_token")

\* line 49: check_port returns or raises
CheckPortDone(t) ==
  /\ Runnable(t) /\ tasks[t].pc = "check_port"
  /\ \/ Step(t, EnterPrepare([tasks[t] EXCEPT !.probe = "open"], listeners),
             "probe_open")
     \/ \E token \in TokenValues :
          Step(t, EnableTelnetCall([tasks[t] EXCEPT !.probe = "closed"], token),
               "probe_closed")
     \/ Step(t, Fail(tasks[t]), "probe_raised")
  /\ UNCHANGED <<listeners, lastReg>>

\* lines 65-72: core_utils.enable_telnet returns resp or raises
EnableTelnetDone(t) ==
  /\ Runnable(t) /\ tasks[t].pc = "enable_telnet"
  /\ \/ Step(t, EnterPrepare([tasks[t] EXCEPT !.enable = "ok"], listeners),
             "enable_ok")
     \/ Step(t, AccessFailed(tasks[t], "not_ok"), "enable_failed")
     \/ Step(t, AccessFailed(tasks[t], "error"), "enable_failed")
  /\ UNCHANGED <<listeners, lastReg>>

\* asyncio.sleep(30) / asyncio.sleep(60) is over: continue
SleepDone(t) ==
  /\ Runnable(t) /\ tasks[t].pc \in {"sleep30", "sleep60"}
  /\ tasks[t].timer = 0
  /\ Step(t, LoopTop(tasks[t], IF tasks[t].pc = "sleep30" THEN "access_failed"
                               ELSE "prepare_failed"), "wake")
  /\ UNCHANGED <<listeners, lastReg>>

\* time passes for the sleeping tasks
Sleeping(t) == Live(t) /\ tasks[t].pc \in {"sleep30", "sleep60"}
Elapse(r) ==
  [r EXCEPT !.timer = IF @ > TickLen THEN @ - TickLen ELSE 0,
            !.slept = @ + TickLen]
Tick ==
  /\ \E t \in TaskIds : Sleeping(t) /\ tasks[t].slept < SleepCap
  /\ tasks' = [t \in TaskIds |->
                 IF Sleeping(t) /\ tasks[t].slept < SleepCap
                 THEN Elapse(tasks[t]) ELSE tasks[t]]
  /\ UNCHANGED <<device, io, main_task, nTasks, stops, listeners, lastReg, stopped, lastStart, fired>>

\* ------------------------------------------------- prepare_gateway, stepwise

\* control leaves the `async with Session` block: Session.__aexit__ runs
ExitScope(r, how) == [r EXCEPT !.pc = "pg_exit", !.exitWith = how]

\* line 76: Session.__aenter__ returns the shell, with or without the
\* read_db_bluetooth attribute, or raises
PgSessionDone(t) ==
  /\ Runnable(t) /\ tasks[t].pc = "pg_session"
  /\ \/ Step(t, [tasks[t] EXCEPT !.pc = "pg_only_one", !.sh = TRUE,
                                  !.ble = device.ble], "session_open")
     \/ Step(t, PrepareFailed(tasks[t], "error"), "prepare_failed")
  /\ UNCHANGED <<listeners, lastReg>>

\* line 77: sh.only_one()
PgOnlyOneDone(t) ==
  /\ Runnable(t) /\ tasks[t].pc = "pg_only_one"
  /\ \/ Step(t, [tasks[t] EXCEPT !.pc = "pg_info"], "only_one")
     \/ Step(t, ExitScope(tasks[t], "conflict"), "conflict")
     \/ Step(t, ExitScope(tasks[t], "error"), "raised")
  /\ UNCHANGED <<listeners, lastReg>>

\* line 81: sh.get_miio_info()
PgInfoDone(t) ==
  /\ Runnable(t) /\ tasks[t].pc = "pg_info"
  /\ \/ Step(t, [tasks[t] EXCEPT !.pc = "pg_version", !.model = device.model],
             "info")
     \/ Step(t, ExitScope(tasks[t], "error"), "raised")
  /\ UNCHANGED <<listeners, lastReg>>

\* lines 82-92: sh.get_version(), the firmware gate, the first inventory read
\* (info["version"] is not read again once the gate is passed)
AfterVersion(r, v) ==
  IF Unsupported(r.model, v)
  THEN ExitScope([r EXCEPT !.version = v], "firmware")
  ELSE [r EXCEPT !.fetched = TRUE, !.pc = "pg_read",
                 !.reads = <<ReadPlan(r.ble, r.model)[1]>>]

PgVersionDone(t) ==
  /\ Runnable(t) /\ tasks[t].pc = "pg_version"
  /\ \/ \E v \in Versions : Step(t, AfterVersion(tasks[t], v), "version")
     \/ Step(t, ExitScope(tasks[t], "error"), "raised")
  /\ UNCHANGED <<listeners, lastReg>>

\* lines 92-103: one inventory read returns; the next is called, or the block
\* is left
AfterRead(r) ==
  LET plan == ReadPlan(r.ble, r.model) IN
  IF Len(r.reads) < Len(plan)
  THEN [r EXCEPT !.reads = Append(@, plan[Len(r.reads) + 1])]
  ELSE ExitScope(r, "ok")

PgReadDone(t) ==
  /\ Runnable(t) /\ tasks[t].pc = "pg_read"
  /\ \/ Step(t, AfterRead(tasks[t]), "read")
     \/ Step(t, ExitScope(tasks[t], "error"), "raised")
  /\ UNCHANGED <<listeners, lastReg>>

\* lines 105-120 and 58: the registrations, return True, and run_forever
\* calls handle_mqtt_messages
Registered(r) ==
  [r EXCEPT !.pc = "mqtt", !.prep = "ok", !.sh = FALSE, !.exitWith = "none",
            !.ble = FALSE, !.model = "", !.version = <<>>, !.fetched = FALSE, !.reads = <<>>]

\* the registrations made inside the Session block: an error of __aexit__
\* then follows them
PgExitDoneRegsInside(t) ==
  /\ Runnable(t) /\ tasks[t].pc = "pg_exit"
  /\ \/ /\ tasks[t].exitWith = "ok" /\ CanBoot
        /\ \/ Step(t, Registered(tasks[t]), "registered")
           \/ Step(t, PrepareFailed(tasks[t], "error"), "prepare_failed")
        /\ listeners' = RegisterAll(listeners, tasks[t].ble, tasks[t].model)
        /\ lastReg' = RegisterAll([k \in EventKinds |-> <<>>],
                                  tasks[t].ble, tasks[t].model)
     \/ /\ tasks[t].exitWith \in {"conflict", "firmware"}
        /\ Step(t, PrepareFailed(tasks[t], tasks[t].exitWith), "prepare_failed")
        /\ UNCHANGED <<listeners, lastReg>>
     \/ /\ tasks[t].exitWith # "ok"
        /\ Step(t, PrepareFailed(tasks[t], "error"), "prepare_failed")
        /\ UNCHANGED <<listeners, lastReg>>

\* Session.__aexit__ is over: the session is released, and prepare_gateway
\* goes on after the block or returns False
PgExitDone(t) ==
  /\ Runnable(t) /\ tasks[t].pc = "pg_exit"
  /\ \/ /\ tasks[t].exitWith = "ok" /\ CanBoot
        /\ Step(t, Registered(tasks[t]), "registered")
        /\ listeners' = RegisterAll(listeners, tasks[t].ble, tasks[t].model)
        /\ lastReg' = RegisterAll([k \in EventKinds |-> <<>>],
                                  tasks[t].ble, tasks[t].model)
     \/ /\ tasks[t].exitWith \in {"conflict", "firmware"}
        /\ Step(t, PrepareFailed(tasks[t], tasks[t].exitWith), "prepare_failed")
        /\ UNCHANGED <<listeners, lastReg>>
     \/ /\ Step(t, PrepareFailed(tasks[t], "error"), "prepare_failed")
        /\ UNCHANGED <<listeners, lastReg>>

\* ------------------------------------------------------ event-handling phase

\* dispatch of one event: every handler of the kind, in registration order
Dispatch(t) ==
  /\ Runnable(t) /\ tasks[t].pc = "mqtt"
  /\ \E k \in EventKinds :
       fired' = [task |-> t, kind |-> k, calls |-> listeners[k]]
  /\ UNCHANGED <<device, io, main_task, tasks, nTasks, stops, listeners, lastReg, stopped, lastStart>>

\* run_forever backing off after the event-handling phase
MqttEndBackoff(t) ==
  /\ Runnable(t) /\ tasks[t].pc = "mqtt"
  /\ \/ Step(t, Backoff(tasks[t], PREPARE_BACKOFF, "sleep60"), "mqtt_end")
     \/ Step(t, Fail(tasks[t]), "mqtt_raised")
  /\ UNCHANGED <<listeners, lastReg>>

\* line 58: handle_mqtt_messages returns (the connection dropped) or raises
MqttEnd(t) ==
  /\ Runnable(t) /\ tasks[t].pc = "mqtt"
  /\ \/ Step(t, LoopTop(tasks[t], "mqtt_end"), "mqtt_end")
     \/ Step(t, Fail(tasks[t]), "mqtt_raised")
  /\ UNCHANGED <<listeners, lastReg>>

\* ------------------------------------------------------------- cancellation

\* the cancellation ending the task without Session.__aexit__ being run
CancelDeliverNoExit(t) ==
  /\ Live(t) /\ tasks[t].must_cancel
  /\ Step(t, [NoTaskRec EXCEPT !.st = "cancelled", !.pc = "done",
                               !.sh = tasks[t].sh], "cancelled")
  /\ UNCHANGED <<listeners, lastReg>>

\* CancelledError is thrown into the coroutine at its await: no handler of
\* gateway.py catches it (except Exception does not), the Session block is
\* left through __aexit__, and the task ends cancelled.
CancelDeliver(t) ==
  /\ Live(t) /\ tasks[t].must_cancel
  /\ Step(t, [NoTaskRec EXCEPT !.st = "cancelled", !.pc = "done"], "cancelled")
  /\ UNCHANGED <<listeners, lastReg>>

\* one step of run_forever that is not a cancellation
RunStep(t) ==
  \/ TaskBegin(t)
  \/ CheckPortDone(t)
  \/ EnableTelnetDone(t)
  \/ SleepDone(t)
  \/ PgSessionDone(t)
  \/ PgOnlyOneDone(t)
  \/ PgInfoDone(t)
  \/ PgVersionDone(t)
  \/ PgReadDone(t)
  \/ PgExitDone(t)
  \/ Dispatch(t)
  \/ MqttEnd(t)

TaskStep(t) == RunStep(t) \/ CancelDeliver(t)

Next ==
  \/ Start
  \/ \E s \in StopIds : StopCall(s) \/ StopWake(s)
  \/ \E t \in TaskIds : TaskStep(t)
  \/ Tick

Spec == Init /\ [][Next]_vars

\* The event loop runs every ready step: a task's pending step and a stop()
\* whose sleep is over are eventually run.
FairSpec ==
  /\ Spec
  /\ \A t \in TaskIds : WF_vars(TaskStep(t))
  /\ \A s \in StopIds : WF_vars(StopWake(s))
  /\ WF_vars(Tick)

\* ================================================================== claims

LiveTasks == {t \in TaskIds : Live(t)}
StopInFlight == \E s \in StopIds : stops[s].pc = "polling"
NoDuplicates(q) == \A i, j \in 1..Len(q) : q[i] = q[j] => i = j
AccessFailures == {"no_token", "not_ok", "error"}
PrepareFailures == {"conflict", "firmware", "error"}

\* C1: absent a stop request the lifecycle task never terminates: whatever
\* check_port, enable_telnet, prepare_gateway and handle_mqtt_messages return
\* or raise, no task ends otherwise than cancelled, and none is cancelled
\* before a stop() was called.
C1_RunsUntilStopped ==
  \A t \in TaskIds :
    /\ tasks[t].st # "failed"
    /\ tasks[t].st = "cancelled" => \E s \in StopIds : stops[s].pc # "idle"

\* C2: when a stop() that found a task returns, main_task is None and the task
\* it was stopping (main_task at the call and at the return) is cancelled;
\* from then on that task takes no step and dispatches no event.
C2_StopReturnsCancelled ==
  [][ /\ \A s \in StopIds :
           (stops[s].pc # "returned" /\ stops'[s].pc = "returned"
              /\ main_task # NoTask)
           => /\ main_task' = NoTask
              /\ tasks'[main_task].st = "cancelled"
              /\ tasks'[stops'[s].target].st = "cancelled"
      /\ \A t \in stopped :
           /\ tasks[t].st = "cancelled"
           /\ tasks'[t] = tasks[t]
           /\ fired' # fired => fired'.task # t ]_vars

C2_Witness ==
  /\ stopped # {}
  /\ main_task = NoTask
  /\ \E s \in StopIds : stops[s].pc = "returned" /\ stops[s].target # NoTask

\* C3: every stop() suspended in its poll loop eventually leaves it, whatever
\* state the task is in.
C3_StopTerminates ==
  \A s \in StopIds : (stops[s].pc = "polling") ~> (stops[s].pc # "polling")

\* C4: at most one lifecycle task is live at any time; no step creates a task
\* while one is live, and a start() that finds a live task leaves main_task
\* unchanged.
C4_OneLiveTask ==
  [][ /\ Cardinality({t \in TaskIds : tasks'[t].st = "pending"}) <= 1
      /\ LiveTasks # {} => nTasks' = nTasks
      /\ (lastStart' = "running" /\ lastStart # "running")
         => main_task' = main_task /\ tasks' = tasks ]_vars

C4_Witness ==
  /\ lastStart = "running"
  /\ nTasks = 2
  /\ LiveTasks = {2}
  /\ main_task = 2

\* C5: start() called when no lifecycle task is running launches one: at the
\* first moment start() has been called with no task running and no stop()
\* that began before it is still in flight, a live task exists.  (Stated for
\* the cases in which no task has ended on its own.)
C5_StartLaunches ==
  [][ ( /\ lastStart' = "not_running" /\ ~StopInFlight'
        /\ ~(lastStart = "not_running" /\ ~StopInFlight)
        /\ \A t \in TaskIds : tasks'[t].st # "failed" )
      => \E t \in TaskIds : tasks'[t].st = "pending" ]_vars

\* C6: in a cycle where the port probe fails and enable-access fails the task
\* does nothing but sleep (no bootstrap), and the next port probe starts only
\* after at least 30 time-units of sleep.
C6_AccessBackoff ==
  \A t \in TaskIds :
    /\ (tasks[t].probe = "closed" /\ tasks[t].enable \in AccessFailures)
       => tasks[t].pc = "sleep30" /\ tasks[t].prep = "none"
    /\ (tasks[t].pc = "check_port" /\ tasks[t].prev = "access_failed")
       => tasks[t].slept >= 30

C6_Witness ==
  \E t \in TaskIds :
    /\ tasks[t].pc = "check_port"
    /\ tasks[t].prev = "access_failed"

\* C7: in a cycle where prepare_gateway fails the task does nothing but sleep
\* (the event-handling phase is entered only after a successful bootstrap),
\* and the next port probe starts only after at least 60 time-units of sleep.
C7_PrepareBackoff ==
  \A t \in TaskIds :
    /\ tasks[t].prep \in PrepareFailures => tasks[t].pc = "sleep60"
    /\ tasks[t].pc = "mqtt" => tasks[t].prep = "ok"
    /\ (tasks[t].pc = "check_port" /\ tasks[t].prev = "prepare_failed")
       => tasks[t].slept >= 60

C7_Witness ==
  \E t \in TaskIds :
    /\ tasks[t].pc = "check_port"
    /\ tasks[t].prev = "prepare_failed"

\* C8: when handle_mqtt_messages returns, the task is next suspended in the
\* port probe of the following cycle, without any sleep in between.
C8_ReconnectAtOnce ==
  [][ \A t \in TaskIds :
        (tasks[t].pc = "mqtt" /\ tasks'[t].pc # "mqtt" /\ tasks'[t].st = "pending")
        => /\ tasks'[t].pc = "check_port"
           /\ tasks'[t].prev = "mqtt_end"
           /\ tasks'[t].timer = 0 /\ tasks'[t].slept = 0 ]_vars

C8_Witness ==
  \E t \in TaskIds :
    /\ tasks[t].pc = "check_port"
    /\ tasks[t].prev = "mqtt_end"

\* C9: the registry holds exactly the handlers the most recent successful
\* bootstrap registered, each at most once per event kind, and a dispatched
\* event invokes each handler at most once.
C9_RegistryOfLastBootstrap ==
  /\ listeners = lastReg
  /\ \A k \in EventKinds : NoDuplicates(listeners[k])
  /\ NoDuplicates(fired.calls)

\* C10: whenever prepare_gateway fails, the registry is as it was when
\* prepare_gateway was called; on a conflict reported by only_one() neither
\* get_miio_info, get_version nor any inventory read has been called.
C10_FailureLeavesRegistry ==
  \A t \in TaskIds :
    /\ tasks[t].prep \in PrepareFailures
       => listeners = tasks[t].pre_listeners
    /\ (tasks[t].pc = "pg_exit" /\ tasks[t].exitWith = "conflict")
       => /\ tasks[t].model = "" /\ tasks[t].version = <<>>
          /\ ~tasks[t].fetched /\ tasks[t].reads = <<>>

C10_Witness ==
  \E t \in TaskIds :
    /\ tasks[t].prep \in PrepareFailures
    /\ listeners[EVENT_MQTT_PUBLISH] # <<>>
    /\ listeners = tasks[t].pre_listeners

Range(q) == {q[i] : i \in 1..Len(q)}
\* what a step appended to a sequence
Added(old, new) == SubSeq(new, Len(old) + 1, Len(new))
BleHandlers == {"ble_on_mqtt_publish", "mesh_on_mqtt_publish"}
BleReads == {"ble_read_devices", "mesh_read_devices"}
BaseMqttHandlers ==
  {"lumi_on_mqtt_publish", "miot_on_mqtt_publish",
   "openmiio_on_mqtt_publish", "silabs_on_mqtt_publish"}

\* C11: a bootstrap reads the BLE/mesh inventories only on a session that has
\* read_db_bluetooth; when it succeeds it registers both BLE/mesh handlers if
\* it read both inventories and none if it read none; on a session without
\* the capability it reads and registers none of them and still registers the
\* lumi, miot, openmiio and silabs MQTT handlers and the two timer handlers.
C11_BleGating ==
  [][ \A t \in TaskIds :
        /\ (Range(tasks'[t].reads) \cap BleReads # {}) => tasks'[t].ble
        /\ (tasks[t].pc = "pg_exit" /\ tasks'[t].pc = "mqtt")
           => LET reads == Range(tasks[t].reads)
                  mqtt == Range(Added(listeners[EVENT_MQTT_PUBLISH],
                                      listeners'[EVENT_MQTT_PUBLISH]))
                  timer == Added(listeners[EVENT_TIMER], listeners'[EVENT_TIMER])
              IN /\ \/ BleReads \subseteq reads /\ BleHandlers \subseteq mqtt
                       /\ tasks[t].ble
                    \/ BleReads \cap reads = {} /\ BleHandlers \cap mqtt = {}
                       /\ ~tasks[t].ble
                 /\ BaseMqttHandlers \subseteq mqtt
                 /\ timer = <<"openmiio_on_timer", "silabs_on_timer">> ]_vars

C11_Witness ==
  /\ ~device.ble
  /\ \E t \in TaskIds : tasks[t].pc = "mqtt" /\ tasks[t].prep = "ok"
  /\ Range(lastReg[EVENT_MQTT_PUBLISH]) \cap BleHandlers = {}
  /\ BaseMqttHandlers \subseteq Range(listeners[EVENT_MQTT_PUBLISH])
  /\ Len(listeners[EVENT_TIMER]) = 2

\* C17: stop() on a gateway that was never started returns without
\* suspending, requests no cancellation and leaves main_task absent.
C17_StopNeverStarted ==
  [][ \A s \in StopIds :
        (nTasks = 0 /\ stops[s].pc = "idle" /\ stops'[s].pc # "idle")
          => /\ stops'[s].pc = "returned"
             /\ tasks' = tasks
             /\ main_task = NoTask /\ main_task' = NoTask ]_vars

C17_Witness ==
  /\ nTasks = 0 /\ main_task = NoTask
  /\ \E s \in StopIds : stops[s].pc = "returned"

SessionPcs == {"pg_session", "pg_only_one", "pg_info", "pg_version", "pg_read", "pg_exit"}

\* task t comes to pc `to` in this step
Enters(t, to) == tasks[t].pc # to /\ tasks'[t].pc = to

\* C18: in every cycle of run_forever enable-access is attempted only when the
\* port probe failed, the bootstrap only after the probe succeeded or
\* enable-access succeeded, and the event-handling phase only directly after
\* prepare_gateway succeeded in the same cycle.
C18_CycleOrder ==
  [][ \A t \in TaskIds :
        /\ (tasks'[t].enable # "none" \/ tasks'[t].pc = "enable_telnet")
             => tasks'[t].probe = "closed"
        /\ Enters(t, "enable_telnet") => tasks[t].pc = "check_port"
        /\ Enters(t, "pg_session")
             => \/ tasks[t].pc = "check_port" /\ tasks'[t].probe = "open"
                \/ tasks[t].pc = "enable_telnet" /\ tasks'[t].enable = "ok"
        /\ tasks'[t].pc \in SessionPcs
             => tasks'[t].probe = "open" \/ tasks'[t].enable = "ok"
        /\ Enters(t, "mqtt")
             => /\ tasks[t].pc = "pg_exit" /\ tasks[t].exitWith = "ok"
                /\ tasks'[t].prep = "ok"
                /\ tasks'[t].probe = tasks[t].probe
                /\ tasks'[t].enable = tasks[t].enable ]_vars

C18_Witness ==
  \E t \in TaskIds :
    /\ Live(t) /\ tasks[t].pc = "mqtt" /\ tasks[t].prep = "ok"
    /\ tasks[t].probe = "closed" /\ tasks[t].enable = "ok"
    /\ tasks[t].prev = "access_failed"

Holders == {t \in TaskIds : tasks[t].sh}

\* C19: every session prepare_gateway opens is released on every way out of
\* its scope, a cancellation by stop() inside the scope included: a task that
\* ends or leaves the scope holds no session; the supervisor holds at most one
\* open session, and none while it sleeps in a backoff, while it is in the
\* event-handling phase, or once a stop() has returned.
C19_SessionReleased ==
  [][ /\ Cardinality(Holders') <= 1
      /\ \A t \in Holders' :
           Live(t)' /\ tasks'[t].pc \in SessionPcs \ {"pg_session"}
      /\ \A t \in TaskIds :
           (tasks[t].sh /\ tasks'[t].pc \notin SessionPcs) => ~tasks'[t].sh
      /\ \A s \in StopIds :
           (stops'[s].pc = "returned" /\ stops'[s].target # NoTask)
             => ~tasks'[stops'[s].target].sh ]_vars

\* a stop() has asked for the cancellation of a task that is inside the scope
C19_Witness ==
  \E t \in TaskIds, s \in StopIds :
    /\ Live(t) /\ tasks[t].sh /\ tasks[t].must_cancel
    /\ tasks[t].pc = "pg_read"
    /\ stops[s].pc = "polling" /\ stops[s].target = t

\* C20: two overlapping stop() calls both return normally, none ends with an
\* error, and main_task is absent once both have returned.
C20_OverlappingStops ==
  /\ \A s \in StopIds : stops[s].pc # "raised"
  /\ (\A s \in StopIds : stops[s].pc = "returned") =>
       (main_task = NoTask \/ lastStart # "none")

\* ===================================================================== send

\* device.type values of .const
GATEWAY == "gateway"
ZIGBEE == "zigbee"
MESH == "mesh"
GROUP == "group"
MATTER == "matter"
\* the types send() is called with: those it knows, and one it does not
DeviceTypes == {GATEWAY, ZIGBEE, MESH, GROUP, MATTER, "ble"}

\* A payload is a dict: a function from the keys it has.  An entry of
\* data["params"] is a dict too, given by the set of its keys.
PayloadKeys == {"cmd", "did", "params", "method", "commands"}
ParamEntries == {{"res_name", "value"}, {"siid", "piid", "value"}, {"did", "value"}}
MaxParams == 2
ParamLists == UNION {[1..n -> ParamEntries] : n \in 0..MaxParams}

PayloadValue(k, params) ==
  CASE k = "cmd" -> "write"
    [] k = "did" -> "lumi.158d0001"
    [] k = "method" -> "set_properties"
    [] k = "commands" -> <<"zcl_command">>
    [] k = "params" -> params

Payloads ==
  { [k \in keys |-> PayloadValue(k, params)] :
      keys \in SUBSET PayloadKeys, params \in ParamLists }

\* `key in data`
Has(data, key) == key \in DOMAIN data

\* [i for i in params if key in i]
Filter(params, key) ==
  LET Keep(i) == key \in i IN SelectSeq(params, Keep)

\* lines 129-137: lumi_data for the gateway itself
GatewayLumiData(data) ==
  IF Has(data, "method")
  THEN [cmd |-> data["cmd"], did |-> "lumi.0",
        params |-> Filter(data["params"], "res_name")]
  ELSE data

\* the multispec miot payload passed on with its params unfiltered
GatewayMiotDataUnfiltered(data) ==
  IF Has(data, "cmd")
  THEN [method |-> data["method"], params |-> data["params"]]
  ELSE data

\* lines 141-148: miot_data for the gateway itself
GatewayMiotData(data) ==
  IF Has(data, "cmd")
  THEN [method |-> data["method"], params |-> Filter(data["params"], "siid")]
  ELSE data

\* the multispec payload passed whole to the lumi adapter
ZigbeeLumiDataWhole(data) == data

\* lines 154-158: lumi_data for a zigbee device
ZigbeeLumiData(data) ==
  IF Has(data, "commands")
  THEN [cmd |-> data["cmd"], did |-> data["did"], params |-> data["params"]]
  ELSE data

\* line 162: silabs_data
ZigbeeSilabsData(data) ==
  IF Has(data, "cmd") THEN [commands |-> data["commands"]] ELSE data

\* a subscript data[key] of the branch taken raises KeyError
KeyErrorIn(dtype, data) ==
  \/ /\ dtype = GATEWAY /\ Has(data, "cmd") /\ Has(data, "method")
     /\ ~Has(data, "params")
  \/ /\ dtype = ZIGBEE /\ Has(data, "cmd") /\ Has(data, "commands")
     /\ ~(Has(data, "did") /\ Has(data, "params"))

Call(adapter, data) == [adapter |-> adapter, data |-> data]

\* lines 126-149
SendGateway(data) ==
  (IF Has(data, "cmd") THEN <<Call("lumi_send", GatewayLumiData(data))>> ELSE <<>>)
  \o (IF Has(data, "method") THEN <<Call("miot_send", GatewayMiotData(data))>>
      ELSE <<>>)

\* lines 151-163
SendZigbee(data) ==
  (IF Has(data, "cmd") THEN <<Call("lumi_send", ZigbeeLumiData(data))>> ELSE <<>>)
  \o (IF Has(data, "commands") THEN <<Call("silabs_send", ZigbeeSilabsData(data))>>
      ELSE <<>>)

\* a group not routed: `elif device.type == MESH`
SendOtherNoGroup(dtype, data) ==
  IF dtype = MESH THEN <<Call("miot_send", data)>>
  ELSE IF dtype = MATTER THEN <<Call("matter_send", data)>>
  ELSE <<>>

\* lines 165-168, and the fall-through of an unmatched type
SendOther(dtype, data) ==
  IF dtype \in {MESH, GROUP} THEN <<Call("miot_send", data)>>
  ELSE IF dtype = MATTER THEN <<Call("matter_send", data)>>
  ELSE <<>>

\* async def send(self, device, data): the adapter calls it makes, in order,
\* and how it ends.  The subscripts that can raise are evaluated before the
\* first adapter call of their branch.
Send(dtype, data) ==
  IF KeyErrorIn(dtype, data) THEN [calls |-> <<>>, end |-> "KeyError"]
  ELSE [calls |-> IF dtype = GATEWAY THEN SendGateway(data)
                  ELSE IF dtype = ZIGBEE THEN SendZigbee(data)
                  ELSE SendOther(dtype, data),
        end |-> "returned"]

\* a caller is about to call send(device, data)
SendInit ==
  /\ device = [model |-> "lumi.gateway.mgl03", ble |-> TRUE]
  /\ Constructed
  /\ \E dtype \in DeviceTypes, data \in Payloads :
       io = [op |-> "send", pc |-> "called", dtype |-> dtype, data |-> data,
             calls |-> <<>>, end |-> "none"]

\* send() runs
SendRun ==
  /\ io.op = "send" /\ io.pc = "called"
  /\ io' = [io EXCEPT !.pc = "done",
                      !.calls = Send(io.dtype, io.data).calls,
                      !.end = Send(io.dtype, io.data).end]
  /\ UNCHANGED <<device, main_task, tasks, nTasks, stops, listeners, lastReg,
                 stopped, lastStart, fired>>

SendNext == SendRun

SendSpec == SendInit /\ [][SendNext]_vars

\* ------------------------------------------------------------ claims of send

SendDone(dtype) == io.op = "send" /\ io.pc = "done" /\ io.dtype = dtype

\* the adapters called, in order
Adapters == [i \in DOMAIN io.calls |-> io.calls[i].adapter]

\* the sub-payload `sub` has exactly the keys `keys`, each with data's value
Projection(sub, data, keys) ==
  /\ DOMAIN sub = keys
  /\ \A k \in keys : Has(data, k) /\ sub[k] = data[k]

ZigbeeRouting ==
  LET data == io.data
      both == Has(data, "cmd") /\ Has(data, "commands")
  IN /\ Adapters = (IF Has(data, "cmd") THEN <<"lumi_send">> ELSE <<>>)
                   \o (IF Has(data, "commands") THEN <<"silabs_send">> ELSE <<>>)
     /\ both => /\ Projection(io.calls[1].data, data, {"cmd", "did", "params"})
                /\ Projection(io.calls[2].data, data, {"commands"})
     /\ (~both /\ Len(io.calls) = 1) => io.calls[1].data = data

GatewayRouting ==
  LET data == io.data
      both == Has(data, "cmd") /\ Has(data, "method")
  IN /\ Adapters = (IF Has(data, "cmd") THEN <<"lumi_send">> ELSE <<>>)
                   \o (IF Has(data, "method") THEN <<"miot_send">> ELSE <<>>)
     /\ (Has(data, "method") /\ ~Has(data, "cmd"))
          => io.calls = <<Call("miot_send", data)>>
     /\ both => LET lumi == io.calls[1].data
                    miot == io.calls[2].data
                IN /\ Has(data, "params")
                   /\ Has(lumi, "params") /\ Has(miot, "params")
                   /\ lumi["params"] = Filter(data["params"], "res_name")
                   /\ miot["params"] = Filter(data["params"], "siid")
                   /\ lumi["cmd"] = data["cmd"] /\ miot["method"] = data["method"]
                   /\ ~Has(lumi, "method") /\ ~Has(miot, "cmd")

C14_OtherRouting ==
  (io.op = "send" /\ io.pc = "done" /\ io.dtype \notin {GATEWAY, ZIGBEE}) =>
    /\ io.end = "returned"
    /\ io.calls = (CASE io.dtype \in {MESH, GROUP} -> <<Call("miot_send", io.data)>>
                     [] io.dtype = MATTER -> <<Call("matter_send", io.data)>>
                     [] OTHER -> <<>>)

C14_Witness ==
  /\ SendDone(GROUP)
  /\ io.calls = <<Call("miot_send", io.data)>>
  /\ DOMAIN io.data = PayloadKeys

\* =========================================================== telnet_command

\* the command names telnet_command knows, and one it does not
TelnetCommands ==
  {"run_ftp", "reboot", "openmiio_restart", "check_firmware_lock",
   "lock_firmware", "unlock_firmware", "ping"}

\* what sh.check_firmware_lock() can hand back: True, False or None
CheckResults == {"True", "False", "None"}

\* lines 173-191: the awaits of the branch of `cmd`, in order
Verbs(cmd) ==
  CASE cmd = "run_ftp" -> <<"run_ftp">>
    [] cmd = "reboot" -> <<"reboot">>
    [] cmd = "openmiio_restart" ->
         <<"exec killall openmiio_agent", "sleep", "openmiio_prepare_gateway">>
    [] cmd = "check_firmware_lock" -> <<"check_firmware_lock">>
    [] cmd = "lock_firmware" -> <<"lock_firmware(True)", "check_firmware_lock">>
    [] cmd = "unlock_firmware" -> <<"lock_firmware(False)", "check_firmware_lock">>
    [] OTHER -> <<>>

Bool(b) == IF b THEN "True" ELSE "False"

\* `is not False` / `is not True` in place of `is True` / `is False`
ReturnValueLoose(cmd, check) ==
  CASE cmd \in {"run_ftp", "reboot", "openmiio_restart"} -> "True"
    [] cmd = "check_firmware_lock" -> check
    [] cmd = "lock_firmware" -> Bool(check # "False")
    [] cmd = "unlock_firmware" -> Bool(check # "True")
    [] OTHER -> "None"

\* the return statement of the branch of `cmd`, `check` being what the last
\* sh.check_firmware_lock() returned; None off the end of the function
ReturnValue(cmd, check) ==
  CASE cmd \in {"run_ftp", "reboot", "openmiio_restart"} -> "True"
    [] cmd = "check_firmware_lock" -> check
    [] cmd = "lock_firmware" -> Bool(check = "True")
    [] cmd = "unlock_firmware" -> Bool(check = "False")
    [] OTHER -> "None"

TelnetIdle == io.op = "none" \/ (io.op = "telnet" /\ io.pc = "done")

\* a caller calls telnet_command(cmd): it runs up to `async with Session(...)`
TelnetCall ==
  /\ TelnetIdle
  /\ \E cmd \in TelnetCommands :
       io' = [op |-> "telnet", cmd |-> cmd, pc |-> "open", sh |-> FALSE,
              verbs |-> <<>>, check |-> "None", raised |-> FALSE,
              end |-> "none", result |-> "None"]
  /\ UNCHANGED <<device, main_task, tasks, nTasks, stops, listeners, lastReg,
                 stopped, lastStart, fired>>

\* the function ends here: the session is released, the value handed back
TelnetReturns(r, value) ==
  [r EXCEPT !.pc = "done", !.sh = FALSE, !.end = "returned", !.result = value]

\* an exception inside the try leaves the session scope and goes past the
\* caller's frame instead of into the except clause
TelnetRaisedPropagates(r) ==
  [r EXCEPT !.pc = "done", !.sh = FALSE, !.raised = TRUE, !.end = "raised"]

\* lines 192-193: except Exception: log it; the function then returns None
TelnetRaised(r) ==
  TelnetReturns([r EXCEPT !.raised = TRUE], "None")

\* after an await of the body: the next await, or the return
TelnetAfter(r) ==
  IF Len(r.verbs) < Len(Verbs(r.cmd)) THEN r
  ELSE TelnetReturns(r, ReturnValue(r.cmd, r.check))

\* line 172: Session.__aenter__ ends: connected, or it raised
TelnetOpened ==
  /\ io.op = "telnet" /\ io.pc = "open"
  /\ \/ io' = TelnetAfter([io EXCEPT !.pc = "verb", !.sh = TRUE])
     \/ io' = TelnetRaised(io)
  /\ UNCHANGED <<device, main_task, tasks, nTasks, stops, listeners, lastReg,
                 stopped, lastStart, fired>>

\* the await of the next verb of the branch ends: done, or it raised
TelnetVerbDone ==
  /\ io.op = "telnet" /\ io.pc = "verb"
  /\ LET verb == Verbs(io.cmd)[Len(io.verbs) + 1]
         did == [io EXCEPT !.verbs = Append(@, verb)]
     IN \/ /\ verb = "check_firmware_lock"
           /\ \E c \in CheckResults : io' = TelnetAfter([did EXCEPT !.check = c])
        \/ /\ verb # "check_firmware_lock"
           /\ io' = TelnetAfter(did)
        \/ /\ verb # "sleep"
           /\ io' = TelnetRaised(did)
  /\ UNCHANGED <<device, main_task, tasks, nTasks, stops, listeners, lastReg,
                 stopped, lastStart, fired>>

TelnetStep == TelnetCall \/ TelnetOpened \/ TelnetVerbDone

\* the supervisor of one gateway and a caller of telnet_command, interleaved;
\* nobody calls stop()
CmdInit ==
  /\ device = [model |-> "lumi.gateway.mgl03", ble |-> TRUE]
  /\ Constructed
  /\ io = NoIo

CmdNext ==
  \/ Start
  \/ \E t \in TaskIds : RunStep(t)
  \/ Tick
  \/ TelnetStep

CmdSpec == CmdInit /\ [][CmdNext]_vars

\* -------------------------------------------------- claims of telnet_command

TelnetDone(cmd) == io.op = "telnet" /\ io.pc = "done" /\ io.cmd = cmd

\* C15: telnet_command("lock_firmware") returns True exactly when the check
\* made after locking reports locked (True) and False for any other check
\* result; "unlock_firmware" returns True exactly when the check reports
\* not-locked (False); an unknown command name returns None and performs no
\* verb on the session.
C15_LockResults ==
  /\ (TelnetDone("lock_firmware") /\ ~io.raised) =>
       /\ io.verbs = <<"lock_firmware(True)", "check_firmware_lock">>
       /\ io.result = (IF io.check = "True" THEN "True" ELSE "False")
  /\ (TelnetDone("unlock_firmware") /\ ~io.raised) =>
       /\ io.verbs = <<"lock_firmware(False)", "check_firmware_lock">>
       /\ io.result = (IF io.check = "False" THEN "True" ELSE "False")
  /\ TelnetDone("ping") =>
       io.end = "returned" /\ io.result = "None" /\ io.verbs = <<>>

C15_Witness ==
  /\ TelnetDone("lock_firmware") /\ ~io.raised
  /\ io.check = "None" /\ io.result = "False"

\* C16: an exception raised anywhere inside telnet_command does not leave it:
\* the call returns None; and no step of telnet_command, whatever the phase
\* of the supervisor at that moment, changes the lifecycle task or main_task.
C16_CommandFailureContained ==
  [][ (io' # io /\ io'.op = "telnet") =>
        /\ main_task' = main_task /\ tasks' = tasks /\ nTasks' = nTasks
        /\ listeners' = listeners
        /\ (io'.pc = "done" /\ io'.raised) =>
             io'.end = "returned" /\ io'.result = "None" /\ ~io'.sh ]_vars

C16_Witness ==
  /\ TelnetDone("openmiio_restart") /\ io.raised
  /\ io.verbs = <<"exec killall openmiio_agent", "sleep", "openmiio_prepare_gateway">>
  /\ \E t \in TaskIds : Live(t) /\ tasks[t].pc = "pg_read" /\ main_task = t

====
